---- MODULE Spec2Model ----
(***************************************************************************)
(* A model of the MaxMovies AI chat endpoint, src/api/generate.js: the     *)
(* per-user memory store (loadMemory, saveMemory), the language heuristic  *)
(* (detectLanguage) and the request handler.                               *)
(*                                                                         *)
(* Text is a sequence of pieces.  A piece is one character, or the name of *)
(* a fixed literal of the source (the persona preamble, a tone             *)
(* instruction, the fallback reply); concatenation is \o.                  *)
(*                                                                         *)
(* A JavaScript value is a record [t |-> type tag, v |-> text]; an object  *)
(* of a request body also has the fields prompt, project and userId.       *)
(***************************************************************************)
EXTENDS Naturals, Sequences, FiniteSets

VARIABLES
    files,      \* the files under MEMORY_DIR: normalized path -> file state
    apiKey,     \* whether process.env.DEEPSEEK_API_KEY is set
    pc,         \* each handler invocation's position
    req,        \* its request (req.body)
    memory,     \* its local variable memory
    sent,       \* the messages it posted to the upstream API
    nCalls,     \* the number of upstream calls it has made for this request
    outcome,    \* how its upstream call settled
    resp,       \* the response it sent
    saved,      \* what its saveMemory logged: the file was written or not
    text,       \* the argument of a direct call of detectLanguage
    lang        \* the result of that call

vars == <<files, apiKey, pc, req, memory, sent, nCalls, outcome, resp, saved, text, lang>>

handlerVars == <<files, apiKey, pc, req, memory, sent, nCalls, outcome, resp, saved>>

-----------------------------------------------------------------------------
(* JavaScript values *)

Undefined == [t |-> "undefined", v |-> <<>>]
Null      == [t |-> "null", v |-> <<>>]
Str(s)    == [t |-> "string", v |-> s]
Num(s)    == [t |-> "number", v |-> s]
Obj(p, j, u) == [t |-> "object", v |-> <<>>, prompt |-> p, project |-> j, userId |-> u]

\* ToBoolean: undefined, null, "" and 0 are falsy
Truthy(x) ==
    /\ x.t \notin {"undefined", "null"}
    /\ ~(x.t = "string" /\ x.v = <<>>)
    /\ ~(x.t = "number" /\ x.v = <<"0">>)

\* a property read: absent on anything that is not an object of the request
Field(x, name) ==
    IF x.t = "object"
    THEN CASE name = "prompt"  -> x.prompt
           [] name = "project" -> x.project
           [] name = "userId"  -> x.userId
    ELSE Undefined

-----------------------------------------------------------------------------
(* Text helpers *)

UpperChars ==
    <<"A","B","C","D","E","F","G","H","I","J","K","L","M",
      "N","O","P","Q","R","S","T","U","V","W","X","Y","Z">>
LowerChars ==
    <<"a","b","c","d","e","f","g","h","i","j","k","l","m",
      "n","o","p","q","r","s","t","u","v","w","x","y","z">>

LowerChar(c) ==
    IF \E i \in 1..Len(UpperChars) : UpperChars[i] = c
    THEN LowerChars[CHOOSE i \in 1..Len(UpperChars) : UpperChars[i] = c]
    ELSE c

\* String.prototype.toLowerCase
ToLowerCase(s) == [i \in 1..Len(s) |-> LowerChar(s[i])]

\* String.prototype.includes
Includes(s, w) ==
    \E i \in 0..(Len(s) - Len(w)) : SubSeq(s, i + 1, i + Len(w)) = w

WhiteSpace == {" ", "\t", "\n"}

\* String.prototype.trim
RECURSIVE TrimStart(_)
TrimStart(s) ==
    IF s # <<>> /\ Head(s) \in WhiteSpace THEN TrimStart(Tail(s)) ELSE s

RECURSIVE TrimEnd(_)
TrimEnd(s) ==
    IF s # <<>> /\ s[Len(s)] \in WhiteSpace
    THEN TrimEnd(SubSeq(s, 1, Len(s) - 1))
    ELSE s

Trim(s) == TrimEnd(TrimStart(s))

-----------------------------------------------------------------------------
(* detectLanguage *)

swahiliWords ==
    << <<"h","a","b","a","r","i">>,
       <<"s","a","s","a">>,
       <<"n","i","k","o">>,
       <<"k","w","a","n","i">>,
       <<"b","a","s","i">>,
       <<"n","d","i","o">>,
       <<"k","a","r","i","b","u">>,
       <<"a","s","a","n","t","e">>,
       <<"m","a","m","b","o">>,
       <<"p","o","a">>,
       <<"s","a","w","a">> >>

shengWords ==
    << <<"b","r","o">>,
       <<"m","a","z","e">>,
       <<"m","a","n","z","e">>,
       <<"n","o","m","a">>,
       <<"f","i","t","i">>,
       <<"s","a","f","i">>,
       <<"b","u","d","a">>,
       <<"m","s","e","e">>,
       <<"m","w","a","n","a">>,
       <<"p","o","a">>,
       <<"v","i","b","e">> >>

\* words.filter((w) => lower.includes(w)).length
FilterCount(words, lower) ==
    LET Hit(w) == Includes(lower, w)
    IN  Len(SelectSeq(words, Hit))

\* Classify with the comparison count <= 3 for count < 3
ClassifyOffByOne(count) ==
    IF count = 0 THEN "english"
    ELSE IF count <= 3 THEN "mixed"
    ELSE "swahili"

\* the classification of a hit count (the two comparisons of detectLanguage)
Classify(count) ==
    IF count = 0 THEN "english"
    ELSE IF count < 3 THEN "mixed"
    ELSE "swahili"

detectLanguage(x) ==
    IF ~Truthy(x) \/ x.t # "string"
    THEN "english"
    ELSE LET lower   == ToLowerCase(x.v)
             swCount == FilterCount(swahiliWords, lower)
             shCount == FilterCount(shengWords, lower)
         IN  Classify(swCount + shCount)

\* the tone instruction of a classification, "\n\n" included
languageInstruction(l) ==
    IF l = "swahili" THEN <<"\n\nRespond fully in Swahili or Sheng">>
    ELSE IF l = "mixed" THEN <<"\n\nRespond bilingually">>
    ELSE <<"\n\nRespond in English">>

-----------------------------------------------------------------------------
(* The memory store *)

\* MEMORY_DIR = "/tmp/memory", as path segments
MEMORY_DIR == << <<"tmp">>, <<"memory">> >>

\* the string a template literal makes of a value
ToString(x) == IF x.t \in {"string", "number"} THEN x.v ELSE <<x.t>>

\* a path's segments: the pieces between "/" pieces
RECURSIVE SplitPath(_, _)
SplitPath(s, cur) ==
    IF s = <<>> THEN <<cur>>
    ELSE IF Head(s) = "/" THEN <<cur>> \o SplitPath(Tail(s), <<>>)
    ELSE SplitPath(Tail(s), Append(cur, Head(s)))

\* path.normalize on segments: "" and "." are dropped, ".." removes the
\* segment before it
RECURSIVE NormalizePath(_, _)
NormalizePath(segs, acc) ==
    IF segs = <<>> THEN acc
    ELSE LET g == Head(segs)
         IN  IF g = <<>> \/ g = <<".">>
             THEN NormalizePath(Tail(segs), acc)
             ELSE IF g = <<"..">>
             THEN NormalizePath(Tail(segs),
                                IF acc = <<>> THEN acc
                                ELSE SubSeq(acc, 1, Len(acc) - 1))
             ELSE NormalizePath(Tail(segs), Append(acc, g))

\* path.join(MEMORY_DIR, `memory_${userId}.json`)
FilePath(userId) ==
    NormalizePath(
        MEMORY_DIR \o SplitPath(<<"memory_">> \o ToString(userId) \o <<".json">>, <<>>),
        <<>>)

Persona == <<"PERSONA">>

\* the default record of loadMemory
DefaultMemory(userId) ==
    [userId      |-> userId,
     lastProject |-> Null,
     lastTask    |-> Null,
     conversation |-> << [role |-> "system", content |-> Persona] >>]

NoFile  == [kind |-> "absent"]
Garbage == [kind |-> "garbage"]

\* JSON.stringify(memory, null, 2): the file text, held as the value it encodes
JSONstringify(mem) == [kind |-> "json", value |-> mem]

\* fs.existsSync(filePath) and JSON.parse(fs.readFileSync(filePath)) succeed
Readable(fs, path) == path \in DOMAIN fs /\ fs[path].kind = "json"

\* JSON.parse of a file's text
JSONparse(file) == file.value

\* saveMemory appending the request's two turns to the file's conversation
\* instead of overwriting the file
saveMemoryMerge(userId, mem, fs, how) ==
    LET filePath == FilePath(userId)
        n        == Len(mem.conversation)
    IN  IF how # "written" \/ filePath \notin DOMAIN fs THEN fs
        ELSE IF fs[filePath].kind = "json"
        THEN [fs EXCEPT ![filePath] =
                 [kind |-> "json",
                  value |-> [mem EXCEPT !.conversation =
                                fs[filePath].value.conversation
                                    \o SubSeq(mem.conversation, n - 1, n)]]]
        ELSE [fs EXCEPT ![filePath] = [kind |-> "json", value |-> mem]]

loadMemory(userId, fs) ==
    LET filePath == FilePath(userId)
    IN  IF Readable(fs, filePath)
        THEN JSONparse(fs[filePath])
        ELSE DefaultMemory(userId)

\* the results of fs.writeFileSync: the file is written, or the call throws
\* before it opened the file, or after it truncated it
WriteResults == {"written", "failed", "truncated"}

saveMemory(userId, mem, fs, how) ==
    LET filePath == FilePath(userId)
    IN  IF filePath \notin DOMAIN fs
           \/ SubSeq(filePath, 1, Len(filePath) - 1) # MEMORY_DIR
           \/ how = "failed"
        THEN fs
        ELSE IF how = "truncated"
        THEN [fs EXCEPT ![filePath] = Garbage]
        ELSE [fs EXCEPT ![filePath] = JSONstringify(mem)]

\* what saveMemory logs: "written" (Memory saved) or the failure
SaveLog(userId, fs, how) ==
    LET filePath == FilePath(userId)
    IN  IF filePath \notin DOMAIN fs
           \/ SubSeq(filePath, 1, Len(filePath) - 1) # MEMORY_DIR
        THEN "failed"
        ELSE how

-----------------------------------------------------------------------------
(* The handler's steps *)

MaxTurns   == 20
KeepRecent == 19

AsAnAi == <<"a","s"," ","a","n"," ","a","i">>
LanguageModel == <<"l","a","n","g","u","a","g","e"," ","m","o","d","e","l">>

MatchAt(s, i, w) ==
    /\ i + Len(w) - 1 <= Len(s)
    /\ \A j \in 1..Len(w) : LowerChar(s[i + j - 1]) = w[j]

\* assistantReply.replace(/as an ai|language model/gi, ""), scanning from i
RECURSIVE ReplaceFrom(_, _)
ReplaceFrom(s, i) ==
    IF i > Len(s) THEN <<>>
    ELSE IF MatchAt(s, i, AsAnAi) THEN ReplaceFrom(s, i + Len(AsAnAi))
    ELSE IF MatchAt(s, i, LanguageModel) THEN ReplaceFrom(s, i + Len(LanguageModel))
    ELSE <<s[i]>> \o ReplaceFrom(s, i + 1)

\* the replace without the g flag: only the first match goes
SanitizeFirstMatch(s) ==
    LET at(i) == IF MatchAt(s, i, AsAnAi) THEN Len(AsAnAi)
                 ELSE IF MatchAt(s, i, LanguageModel) THEN Len(LanguageModel)
                 ELSE 0
        hits  == { i \in 1..Len(s) : at(i) > 0 }
    IN  IF hits = {} THEN s
        ELSE LET k == CHOOSE i \in hits : \A j \in hits : i <= j
             IN  SubSeq(s, 1, k - 1) \o SubSeq(s, k + at(k), Len(s))

Sanitize(s) == ReplaceFrom(s, 1)

Fallback == <<"I apologize, but I couldn't generate a response. Please try again.">>

\* Truncate with slice(-18) for slice(-19)
TruncateKeep18(conv) ==
    IF Len(conv) > 20
    THEN <<conv[1]>> \o SubSeq(conv, Len(conv) - 17, Len(conv))
    ELSE conv

\* Truncate without the system message: conversation.slice(-20)
TruncateLast20(conv) ==
    IF Len(conv) > 20 THEN SubSeq(conv, Len(conv) - 19, Len(conv)) ELSE conv

\* the history limit: the system message and conversation.slice(-19)
Truncate(conv) ==
    IF Len(conv) > MaxTurns
    THEN <<conv[1]>> \o SubSeq(conv, Len(conv) - KeepRecent + 1, Len(conv))
    ELSE conv

\* the body after the optional JSON.parse: "invalidJson" when it throws
ParsedBody(body) ==
    IF body.t = "string"
    THEN IF body.parses THEN body.value ELSE [t |-> "invalidJson", v |-> <<>>]
    ELSE body

\* Validate without the prompt.trim() === '' test
ValidateNoTrim(body) ==
    LET b      == ParsedBody(body)
        prompt == Field(b, "prompt")
    IN  IF b.t = "invalidJson" THEN "invalidJson"
        ELSE IF b.t \in {"undefined", "null"} THEN "typeError"
        ELSE IF prompt.t \notin {"undefined", "null", "string"} THEN "typeError"
        ELSE IF ~Truthy(prompt) THEN "missingPrompt"
        ELSE "ok"

\* the checks of the request up to the prompt test
Validate(body) ==
    LET b      == ParsedBody(body)
        prompt == Field(b, "prompt")
    IN  IF b.t = "invalidJson" THEN "invalidJson"
        ELSE IF b.t \in {"undefined", "null"} THEN "typeError"       \* destructuring
        ELSE IF prompt.t \notin {"undefined", "null", "string"}
             THEN "typeError"                                        \* prompt?.substring
        ELSE IF ~Truthy(prompt) \/ Trim(prompt.v) = <<>> THEN "missingPrompt"
        ELSE "ok"

\* userId = "default" when the field is absent
UserIdOf(body) ==
    LET u == Field(ParsedBody(body), "userId")
    IN  IF u.t = "undefined" THEN Str(<<"default">>) ELSE u

\* UpdatedMemory without memory.lastTask = prompt
UpdatedMemoryKeepsTask(body, fs) ==
    LET b       == ParsedBody(body)
        prompt  == Field(b, "prompt")
        project == Field(b, "project")
        m       == loadMemory(UserIdOf(body), fs)
    IN  [m EXCEPT !.lastProject = IF Truthy(project) THEN project ELSE @,
                  !.conversation = Append(@, [role |-> "user", content |-> prompt.v])]

\* memory after the load and the updates of the request
UpdatedMemory(body, fs) ==
    LET b       == ParsedBody(body)
        prompt  == Field(b, "prompt")
        project == Field(b, "project")
        m       == loadMemory(UserIdOf(body), fs)
    IN  [m EXCEPT !.lastProject = IF Truthy(project) THEN project ELSE @,
                  !.lastTask = prompt,
                  !.conversation = Append(@, [role |-> "user", content |-> prompt.v])]

\* messages = [...memory.conversation]; messages[0].content += instruction
PrepareMessages(conv, instruction) ==
    IF conv # <<>> /\ conv[1].role = "system"
    THEN [conv EXCEPT ![1].content = @ \o instruction]
    ELSE conv

\* memory.conversation once messages is prepared: the copy is shallow, so the
\* two arrays hold the same turn objects
SharedTurns(conv, messages) == [i \in 1..Len(conv) |-> messages[i]]

\* the key check left out
KeyMissingIgnored(key) == FALSE

\* !process.env.DEEPSEEK_API_KEY
KeyMissing(key) == ~key

\* ErrorStatus without the ECONNABORTED branch
ErrorStatusNoTimeout(err) ==
    IF err.status = 401 THEN 401
    ELSE IF err.status = 429 THEN 429
    ELSE 500

\* the catch block's status for a thrown error
ErrorStatus(err) ==
    IF err.status = 401 THEN 401
    ELSE IF err.status = 429 THEN 429
    ELSE IF err.code = "ECONNABORTED" THEN 408
    ELSE 500

ErrorMessage(err) ==
    IF err.status = 401 THEN "API key is invalid or missing."
    ELSE IF err.status = 429 THEN "Rate limit exceeded. Please try again later."
    ELSE IF err.code = "ECONNABORTED" THEN "Request timeout. Please try again."
    ELSE IF err.enoent THEN "File system error."
    ELSE "Server error. Please try again."

-----------------------------------------------------------------------------
(* Requests, upstream outcomes and responses *)

Post(body) == [method |-> "POST", body |-> body]
Other(m)   == [method |-> m, body |-> Undefined]

\* a string body, held as what JSON.parse makes of it
JsonText(value) == [t |-> "string", v |-> <<"{json}">>, parses |-> TRUE, value |-> value]
BadJson         == [t |-> "string", v |-> <<"{bad">>, parses |-> FALSE, value |-> Undefined]

NoRequest == Other("none")

NoMemory == [userId |-> Undefined, lastProject |-> Null, lastTask |-> Null,
             conversation |-> <<>>]

\* the upstream call settles with a reply, or with an axios error
Reply(content) ==
    [kind |-> "reply", content |-> content, status |-> 200, code |-> "", enoent |-> FALSE]
AxiosError(status, code) ==
    [kind |-> "error", content |-> Undefined, status |-> status, code |-> code,
     enoent |-> FALSE]
\* an error thrown by the handler's own code
TypeError ==
    [kind |-> "error", content |-> Undefined, status |-> 0, code |-> "", enoent |-> FALSE]
NoOutcome ==
    [kind |-> "none", content |-> Undefined, status |-> 0, code |-> "", enoent |-> FALSE]

Response(status, error, reply, mem, userId) ==
    [status |-> status, error |-> error, reply |-> reply,
     lastProject |-> mem.lastProject,
     conversationLength |-> Len(mem.conversation),
     userId |-> userId]

ErrorResponse(status, error) == Response(status, error, <<>>, NoMemory, Undefined)

NoResponse == ErrorResponse(0, "")

\* the response of the catch block
Caught(err) == ErrorResponse(ErrorStatus(err), ErrorMessage(err))

-----------------------------------------------------------------------------
(* The state machine *)

AllHandlers == {1, 2}

\* the user ids of the requests
DefaultUser   == Str(<<"default">>)
User2         == Str(<<"u","2">>)
TraversalUser == Str(<<"x","/","..","/","memory_","u","2">>)
UserIds       == {DefaultUser, User2, TraversalUser}

Paths == {FilePath(u) : u \in UserIds}

HandlerInit ==
    /\ files = [p \in Paths |-> NoFile]
    /\ apiKey \in BOOLEAN
    /\ pc = [h \in AllHandlers |-> "idle"]
    /\ req = [h \in AllHandlers |-> NoRequest]
    /\ memory = [h \in AllHandlers |-> NoMemory]
    /\ sent = [h \in AllHandlers |-> <<>>]
    /\ nCalls = [h \in AllHandlers |-> 0]
    /\ outcome = [h \in AllHandlers |-> NoOutcome]
    /\ resp = [h \in AllHandlers |-> NoResponse]
    /\ saved = [h \in AllHandlers |-> "none"]

Init ==
    /\ HandlerInit
    /\ text = Undefined
    /\ lang = "none"

\* the number of tone instructions in the system turn a request would load
StoredTones(body, fs) ==
    Len(loadMemory(UserIdOf(body), fs).conversation[1].content) - Len(Persona)

\* handler h ends with response r, having made no upstream call
Respond(h, r, mem) ==
    /\ pc' = [pc EXCEPT ![h] = "responded"]
    /\ resp' = [resp EXCEPT ![h] = r]
    /\ memory' = [memory EXCEPT ![h] = mem]
    /\ sent' = [sent EXCEPT ![h] = <<>>]
    /\ nCalls' = [nCalls EXCEPT ![h] = 0]

\* The handler from its entry to the await of axios.post: the method
\* routing, the body checks, the load and update of memory, the message
\* list, the key check and the upstream call.
Receive(h, requests, cap) ==
    /\ pc[h] \in {"idle", "responded"}
    /\ \E r \in requests :
        /\ req' = [req EXCEPT ![h] = r]
        /\ outcome' = [outcome EXCEPT ![h] = NoOutcome]
        /\ saved' = [saved EXCEPT ![h] = "none"]
        /\ UNCHANGED <<files, apiKey, text, lang>>
        /\ IF r.method = "OPTIONS" THEN Respond(h, ErrorResponse(200, ""), NoMemory)
           ELSE IF r.method = "GET" THEN Respond(h, ErrorResponse(200, "online"), NoMemory)
           ELSE IF r.method # "POST"
                THEN Respond(h, ErrorResponse(405, "Method not allowed"), NoMemory)
           ELSE LET valid == Validate(r.body)
                IN  IF valid = "invalidJson"
                    THEN Respond(h, ErrorResponse(400, "Invalid JSON in request body"),
                                 NoMemory)
                    ELSE IF valid = "typeError"
                    THEN Respond(h, Caught(TypeError), NoMemory)
                    ELSE IF valid = "missingPrompt"
                    THEN Respond(h, ErrorResponse(400, "Missing or empty prompt parameter."),
                                 NoMemory)
                    ELSE
                    LET m        == UpdatedMemory(r.body, files)
                        prompt   == Field(ParsedBody(r.body), "prompt")
                        messages == PrepareMessages(
                                        m.conversation,
                                        languageInstruction(detectLanguage(prompt)))
                        shared   == [m EXCEPT !.conversation =
                                                 SharedTurns(m.conversation, messages)]
                    IN  /\ StoredTones(r.body, files) < cap
                        /\ IF KeyMissing(apiKey)
                           THEN Respond(h, ErrorResponse(500, "Server configuration error"),
                                        shared)
                           ELSE /\ pc' = [pc EXCEPT ![h] = "calling"]
                                /\ memory' = [memory EXCEPT ![h] = shared]
                                /\ sent' = [sent EXCEPT ![h] = messages]
                                /\ nCalls' = [nCalls EXCEPT ![h] = 1]
                                /\ resp' = [resp EXCEPT ![h] = NoResponse]

\* Settle with one retry: a rejected call is made again
SettleRetry(h, outcomes) ==
    /\ pc[h] = "calling"
    /\ \E o \in outcomes :
          /\ outcome' = [outcome EXCEPT ![h] = o]
          /\ IF o.kind = "error" /\ nCalls[h] < 2
             THEN /\ nCalls' = [nCalls EXCEPT ![h] = @ + 1]
                  /\ UNCHANGED pc
             ELSE /\ pc' = [pc EXCEPT ![h] = "settled"]
                  /\ UNCHANGED nCalls
    /\ UNCHANGED <<files, apiKey, req, memory, sent, resp, saved, text, lang>>

\* The upstream call of handler h settles: axios.post resolves or rejects.
Settle(h, outcomes) ==
    /\ pc[h] = "calling"
    /\ \E o \in outcomes : outcome' = [outcome EXCEPT ![h] = o]
    /\ pc' = [pc EXCEPT ![h] = "settled"]
    /\ UNCHANGED <<files, apiKey, req, memory, sent, nCalls, resp, saved, text, lang>>

\* a failed call answered like a call with no reply text
RejectedNever(o) == FALSE

\* the awaited axios.post rejects: the handler's catch block runs
Rejected(o) == o.kind = "error"

\* saveMemory without its try/catch: a failed write is thrown to the handler
saveMemoryRethrows(how) == how # "written"

\* saveMemory throws to its caller: never, its catch block only logs
saveMemoryThrows(how) == FALSE

\* the error fs.writeFileSync throws
WriteError ==
    [kind |-> "error", content |-> Undefined, status |-> 0, code |-> "ENOENT",
     enoent |-> TRUE]

\* The handler after the await: the reply is cleaned, appended, the history
\* truncated and saved, and the response sent; or the catch block answers.
Resume(h, writes) ==
    /\ pc[h] = "settled"
    /\ pc' = [pc EXCEPT ![h] = "responded"]
    /\ UNCHANGED <<apiKey, req, sent, nCalls, outcome, text, lang>>
    /\ LET o      == outcome[h]
           userId == UserIdOf(req[h].body)
       IN  IF Rejected(o)
           THEN /\ resp' = [resp EXCEPT ![h] = Caught(o)]
                /\ UNCHANGED <<files, memory, saved>>
           ELSE LET assistantReply == IF Truthy(o.content) THEN o.content
                                      ELSE Str(Fallback)
                IN  IF assistantReply.t # "string"
                    THEN /\ resp' = [resp EXCEPT ![h] = Caught(TypeError)]   \* .replace
                         /\ UNCHANGED <<files, memory, saved>>
                    ELSE
                    LET cleanText == Sanitize(assistantReply.v)
                        m == [memory[h] EXCEPT !.conversation =
                                 Truncate(Append(@, [role |-> "assistant",
                                                      content |-> cleanText]))]
                    IN  /\ memory' = [memory EXCEPT ![h] = m]
                        /\ \E how \in writes :
                              /\ files' = saveMemory(userId, m, files, how)
                              /\ saved' = [saved EXCEPT ![h] =
                                               SaveLog(userId, files, how)]
                              /\ resp' = [resp EXCEPT ![h] =
                                             IF saveMemoryThrows(how)
                                             THEN Caught(WriteError)
                                             ELSE Response(200, "", cleanText, m,
                                                           userId)]

-----------------------------------------------------------------------------
(* The inputs of the specifications *)

PromptHi  == Str(<<"h","i">>)
PromptPoa == Str(<<"P","o","a">>)
PromptBro == Str(<<"p","o","a"," ","b","r","o">>)
Project   == Str(<<"proj">>)

InvalidBodies ==
    { Undefined, Null, BadJson, JsonText(Null),
      Obj(Undefined, Undefined, Undefined),
      Obj(Null, Undefined, User2),
      Obj(Str(<<>>), Undefined, User2),
      Obj(Str(<<" ", "\n">>), Project, Undefined),
      Obj(Num(<<"4","2">>), Undefined, Undefined),
      Obj(Num(<<"0">>), Undefined, Undefined) }

ValidBodies(prompts, projects, users) ==
    { Obj(p, j, u) : p \in prompts, j \in projects, u \in users }

Outcomes ==
    { Reply(Str(<<"o","k">>)),
      Reply(Null),
      AxiosError(401, "ERR_BAD_REQUEST"),
      AxiosError(429, "ERR_BAD_REQUEST"),
      AxiosError(503, "ERR_BAD_RESPONSE"),
      AxiosError(0, "ECONNABORTED"),
      AxiosError(0, "ECONNRESET") }

\* one handler at a time, every kind of request and of upstream outcome
MaxTones == 2

Requests ==
    { Other("OPTIONS"), Other("GET"), Other("DELETE") }
    \cup { Post(b) : b \in InvalidBodies }
    \cup { Post(Obj(PromptHi, Undefined, Undefined)),
           Post(JsonText(Obj(PromptHi, Undefined, Undefined))),
           Post(Obj(PromptBro, Project, User2)),
           Post(Obj(PromptPoa, Undefined, TraversalUser)) }

Next ==
    \/ Receive(1, Requests, MaxTones)
    \/ Settle(1, Outcomes)
    \/ Resume(1, WriteResults)

Spec == Init /\ [][Next]_vars

\* the failures of a request, under the fairness of the event loop: the
\* continuation of a settled call is run
MaxTonesFair == 1

FairRequests ==
    { Post(Undefined), Post(Null),
      Post(Obj(PromptHi, Undefined, Undefined)),
      Post(Obj(PromptBro, Project, User2)) }

FairNext ==
    \/ Receive(1, FairRequests, MaxTonesFair)
    \/ Settle(1, Outcomes)
    \/ Resume(1, WriteResults)

FairSpec == Init /\ [][FairNext]_vars /\ WF_vars(Resume(1, WriteResults))

\* two handler invocations in flight at once
MaxTonesConc == 2

ConcRequests ==
    { Post(Obj(Str(<<>>), Undefined, Undefined)),
      Post(Obj(PromptHi, Undefined, Undefined)),
      Post(Obj(PromptBro, Project, Undefined)),
      Post(Obj(PromptPoa, Undefined, User2)) }

ConcOutcomes == { Reply(Str(<<"o","k">>)), AxiosError(0, "ECONNABORTED") }

ConcWrites == {"written", "failed"}

ConcNext ==
    \E h \in AllHandlers :
        \/ Receive(h, ConcRequests, MaxTonesConc)
        \/ Settle(h, ConcOutcomes)
        \/ Resume(h, ConcWrites)

ConcSpec == Init /\ [][ConcNext]_vars

\* one user's history, long enough for the history limit to apply
MaxTonesDeep == 11

DeepRequests ==
    { Post(Obj(Undefined, Undefined, Undefined)),
      Post(Obj(PromptHi, Undefined, Undefined)),
      Post(Obj(PromptPoa, Undefined, Undefined)) }

DeepOutcomes == { Reply(Str(<<"o","k">>)), AxiosError(429, "ERR_BAD_REQUEST") }

DeepInit == Init /\ apiKey

DeepNext ==
    \/ Receive(1, DeepRequests, MaxTonesDeep)
    \/ Settle(1, DeepOutcomes)
    \/ Resume(1, WriteResults)

DeepSpec == DeepInit /\ [][DeepNext]_vars

-----------------------------------------------------------------------------
(* Direct calls of detectLanguage *)

MaxTokens == 3

Tokens ==
    { <<"p","o","a">>, <<"B","r","o">>, <<"m","a","n">>, <<"z","e">>,
      <<"S","a","s","a">>, <<"h","i">>, <<" ">> }

RECURSIVE Flatten(_)
Flatten(ss) == IF ss = <<>> THEN <<>> ELSE Head(ss) \o Flatten(Tail(ss))

TokenStrings ==
    UNION { { Flatten(ss) : ss \in [1..n -> Tokens] } : n \in 0..MaxTokens }

LangInputs ==
    { Undefined, Null, Num(<<"4","2">>), Num(<<"0">>) }
    \cup { Str(s) : s \in TokenStrings }

LangInit ==
    /\ HandlerInit
    /\ apiKey
    /\ text \in LangInputs
    /\ lang = "none"

Detect ==
    /\ lang = "none"
    /\ lang' = detectLanguage(text)
    /\ UNCHANGED <<handlerVars, text>>

LangNext == Detect

LangSpec == LangInit /\ [][LangNext]_vars

\* The handler with upstream replies that carry the disclaimer phrases in
\* every arrangement of a few fragments
MaxReplyTokens == 2
MaxTonesSan    == 1

ReplyTokens ==
    { <<"A","s"," ","a","n"," ","A","I">>,
      <<" ","l","a","n","g","u","a","g","e"," ","m","o","d","e","l">>,
      <<"a","n","g","u","a","g","e"," ","M","O","D","E","L">>,
      <<"a","s"," ","a","n"," ">>,
      <<"a","i">>,
      <<","," ","o","k">> }

ReplyTexts ==
    UNION { { Flatten(ss) : ss \in [1..n -> ReplyTokens] } : n \in 0..MaxReplyTokens }

SanRequests == { Post(Obj(PromptHi, Undefined, Undefined)) }

SanOutcomes ==
    { Reply(Str(t)) : t \in ReplyTexts } \cup { Reply(Null), AxiosError(503, "") }

SanWrites == {"written", "failed"}

SanInit == Init /\ apiKey

SanNext ==
    \/ Receive(1, SanRequests, MaxTonesSan)
    \/ Settle(1, SanOutcomes)
    \/ Resume(1, SanWrites)

SanSpec == SanInit /\ [][SanNext]_vars

-----------------------------------------------------------------------------
(* The claims *)

\* the state of handler h, and a step in which it changes
HandlerState(h) ==
    <<pc[h], req[h], memory[h], sent[h], nCalls[h], outcome[h], resp[h], saved[h]>>

Took(h) == HandlerState(h)' # HandlerState(h)

\* handler h goes from the await to a 200 response
Resumed200(h) ==
    pc[h] = "settled" /\ pc'[h] = "responded" /\ resp'[h].status = 200

\* the prompt a request carries, Undefined when it carries none
PromptOf(r) ==
    LET b == IF r.body.t = "string" /\ r.body.parses THEN r.body.value ELSE r.body
    IN  IF b.t = "object" THEN b.prompt ELSE Undefined

Blank(s) == \A i \in 1..Len(s) : s[i] \in WhiteSpace

EmptyPrompt(r) ==
    r.method = "POST" /\ PromptOf(r).t = "string" /\ Blank(PromptOf(r).v)

UsablePrompt(r) ==
    r.method = "POST" /\ PromptOf(r).t = "string" /\ ~Blank(PromptOf(r).v)

\* C1: the tone instruction is never persisted: the system turn of every
\* record saveMemory wrote is exactly the persona preamble, and building the
\* outbound messages leaves the system turn of the handler's record alone.
C1_ToneNeverPersisted ==
    /\ \A p \in Paths :
          files[p].kind = "json"
              => files[p].value.conversation[1].content = Persona
    /\ \A h \in AllHandlers :
          pc[h] = "calling" => memory[h].conversation[1].content = Persona

\* C2: when the conversation has more than 20 turns once the assistant turn
\* is appended, the handler keeps turn 0 and the last 19 turns in their
\* order, 20 turns in all; otherwise it keeps the conversation as it is; and
\* that is the conversation saveMemory writes.
C2_Truncation ==
    [][\A h \in AllHandlers :
          Resumed200(h) =>
              LET pre  == Append(memory[h].conversation,
                                 [role |-> "assistant", content |-> resp'[h].reply])
                  post == memory'[h].conversation
                  path == FilePath(UserIdOf(req[h].body))
              IN  /\ IF Len(pre) > 20
                     THEN /\ Len(post) = 20
                          /\ post[1] = pre[1]
                          /\ \A i \in 1..19 : post[1 + i] = pre[Len(pre) - 19 + i]
                     ELSE post = pre
                  /\ saved'[h] = "written"
                        => /\ files'[path].kind = "json"
                           /\ files'[path].value.conversation = post]_vars

\* a request was answered 200 and its truncated conversation was saved
C2_Witness ==
    \E h \in AllHandlers :
        /\ pc[h] = "responded" /\ resp[h].status = 200 /\ saved[h] = "written"
        /\ resp[h].conversationLength = 20
        /\ Len(files[FilePath(UserIdOf(req[h].body))].value.conversation) = 20

\* C3: the first turn of every persisted record has role system.
C3_SystemFirst ==
    \A p \in Paths :
        files[p].kind = "json"
            => /\ Len(files[p].value.conversation) >= 1
               /\ files[p].value.conversation[1].role = "system"

\* a persisted record that went through truncation: 20 turns, the second one
\* an assistant turn
C3_Witness ==
    \E p \in Paths :
        /\ files[p].kind = "json"
        /\ Len(files[p].value.conversation) = 20
        /\ files[p].value.conversation[1].role = "system"
        /\ files[p].value.conversation[2].role = "assistant"

\* C4: a POST with an empty or blank prompt is answered 400, with no load of
\* memory, no upstream call and no change of any file.
C4_EmptyPromptRejected ==
    [][\A h \in AllHandlers :
          (Took(h) /\ pc[h] \in {"idle", "responded"} /\ EmptyPrompt(req'[h]))
              => /\ pc'[h] = "responded"
                 /\ resp'[h].status = 400
                 /\ memory'[h] = NoMemory
                 /\ nCalls'[h] = 0
                 /\ sent'[h] = <<>>
                 /\ files' = files]_vars

\* a blank (not empty) prompt was answered 400 while a record was persisted
C4_Witness ==
    \E h \in AllHandlers :
        /\ pc[h] = "responded" /\ EmptyPrompt(req[h]) /\ PromptOf(req[h]).v # <<>>
        /\ resp[h].status = 400
        /\ \E p \in Paths : files[p].kind = "json"

\* C5: every POST with no usable prompt (absent prompt, absent body, invalid
\* JSON, a prompt that is no string) is answered 400 with no memory access
\* and no upstream call.
C5_NoPromptIs400 ==
    \A h \in AllHandlers :
        (pc[h] = "responded" /\ req[h].method = "POST" /\ ~UsablePrompt(req[h]))
            => /\ resp[h].status = 400
               /\ memory[h] = NoMemory
               /\ nCalls[h] = 0

\* C6: with no API key a POST with a usable prompt is answered 500 with the
\* configuration message and makes no upstream call; an upstream call is
\* only ever made with the key set.
C6_KeyCheckedFirst ==
    \A h \in AllHandlers :
        /\ nCalls[h] > 0 => apiKey
        /\ (pc[h] # "idle" /\ UsablePrompt(req[h]) /\ ~apiKey)
              => /\ pc[h] = "responded"
                 /\ resp[h].status = 500
                 /\ resp[h].error = "Server configuration error"
                 /\ nCalls[h] = 0
                 /\ sent[h] = <<>>

C6_Witness ==
    \E h \in AllHandlers :
        /\ ~apiKey /\ pc[h] = "responded" /\ UsablePrompt(req[h])
        /\ resp[h].status = 500 /\ nCalls[h] = 0

\* C7: the status of the answer to a failed request is 401 for an upstream
\* 401, 429 for an upstream 429, 408 for ECONNABORTED and 500 for every
\* other upstream failure and for an error thrown by the handler itself; a
\* request whose call timed out is eventually answered 408.
C7_ErrorStatusMap ==
    /\ [](\A h \in AllHandlers :
            /\ (pc[h] = "responded" /\ outcome[h].kind = "error")
                  => resp[h].status =
                        CASE outcome[h].status = 401 -> 401
                          [] outcome[h].status = 429 -> 429
                          [] outcome[h].status \notin {401, 429}
                               /\ outcome[h].code = "ECONNABORTED" -> 408
                          [] OTHER -> 500
            /\ (pc[h] = "responded" /\ req[h].method = "POST"
                  /\ req[h].body.t \in {"undefined", "null"})
                  => resp[h].status = 500)
    /\ \A h \in AllHandlers :
          (pc[h] = "settled" /\ outcome[h].code = "ECONNABORTED")
              ~> (pc[h] = "responded" /\ resp[h].status = 408)

C7_Witness ==
    \E h \in AllHandlers :
        /\ pc[h] = "responded" /\ outcome[h].code = "ECONNABORTED"
        /\ resp[h].status = 408

\* C8: a save overwrites: when a handler is answered 200 the file of its
\* user is left alone (the write failed), truncated, or made exactly the
\* record built from what that handler loaded, whatever another handler
\* saved in between.
C8_LastWriterWins ==
    [][\A h \in AllHandlers :
          Resumed200(h) =>
              LET path == FilePath(UserIdOf(req[h].body))
                  mine == [memory[h] EXCEPT !.conversation =
                              Append(@, [role |-> "assistant",
                                         content |-> resp'[h].reply])]
              IN  \/ saved'[h] = "failed" /\ files' = files
                  \/ saved'[h] = "truncated"
                        /\ files' = [files EXCEPT ![path] = Garbage]
                  \/ saved'[h] = "written"
                        /\ files' = [files EXCEPT ![path] =
                                        [kind |-> "json", value |-> mine]]]_vars

\* both handlers loaded the empty history of the same user, both were
\* answered 200 and both wrote the file; the file holds the turns of the
\* second one only
C8_Witness ==
    /\ pc[1] = "responded" /\ pc[2] = "responded"
    /\ resp[1].status = 200 /\ resp[2].status = 200
    /\ saved[1] = "written" /\ saved[2] = "written"
    /\ UserIdOf(req[1].body) = UserIdOf(req[2].body)
    /\ PromptOf(req[1]) # PromptOf(req[2])
    /\ Len(memory[1].conversation) = 3 /\ Len(memory[2].conversation) = 3
    /\ LET f == files[FilePath(UserIdOf(req[2].body))]
       IN  /\ f.kind = "json"
           /\ f.value.conversation = memory[2].conversation
           /\ \A i \in 1..Len(f.value.conversation) :
                 f.value.conversation[i].content # PromptOf(req[1]).v

\* C9: a request for user id A leaves the persisted record of every other
\* user id B as it was.
C9_UserScoped ==
    [][\A h \in AllHandlers :
          Took(h) =>
              \A B \in UserIds \ {UserIdOf(req'[h].body)} :
                  loadMemory(B, files') = loadMemory(B, files)]_vars

\* C10: detectLanguage returns english for a value that is no non-empty
\* string, and otherwise classifies by the number of listed terms that occur
\* in the lower-cased text, each list counted on its own: english for 0,
\* mixed for 1 or 2, swahili for 3 or more.
RefOccurs(w, s) ==
    \E k \in 1..Len(s) :
        /\ k + Len(w) - 1 <= Len(s)
        /\ \A j \in 1..Len(w) : LowerChar(s[k + j - 1]) = w[j]

RefHits(s) ==
    Cardinality({i \in 1..Len(swahiliWords) : RefOccurs(swahiliWords[i], s)})
    + Cardinality({i \in 1..Len(shengWords) : RefOccurs(shengWords[i], s)})

C10_DetectLanguage ==
    lang # "none" =>
        IF text.t # "string" \/ text.v = <<>>
        THEN lang = "english"
        ELSE /\ RefHits(text.v) = 0 => lang = "english"
             /\ RefHits(text.v) \in {1, 2} => lang = "mixed"
             /\ RefHits(text.v) >= 3 => lang = "swahili"

\* a text with exactly three hits, one of them across two tokens, was
\* classified swahili
C10_Witness ==
    /\ lang = "swahili" /\ text.t = "string" /\ RefHits(text.v) = 3
    /\ RefOccurs(<<"m","a","n","z","e">>, text.v)


\* the occurrences of the disclaimer phrases in s, upper or lower case: a
\* function from the position an occurrence starts at to its length
Occurrences(s) ==
    LET low == ToLowerCase(s)
        at(i, w) == i + Len(w) - 1 <= Len(s) /\ SubSeq(low, i, i + Len(w) - 1) = w
    IN  [i \in { k \in 1..Len(s) : at(k, AsAnAi) \/ at(k, LanguageModel) } |->
            IF at(i, AsAnAi) THEN Len(AsAnAi) ELSE Len(LanguageModel)]

\* the positions of s that lie in an occurrence
EveryOccurrence(s) ==
    LET occ == Occurrences(s)
    IN  UNION { i..(i + occ[i] - 1) : i \in DOMAIN occ }

\* the positions of s that lie in a match of one left-to-right scan: the
\* matches are occurrences, pairwise disjoint, and every occurrence left out
\* starts inside an earlier match
ScanMatches(s) ==
    LET occ  == Occurrences(s)
        span == [i \in DOMAIN occ |-> i..(i + occ[i] - 1)]
        K == CHOOSE M \in SUBSET DOMAIN occ :
                /\ \A k \in M : \A k2 \in M : k < k2 => k2 \notin span[k]
                /\ \A j \in (DOMAIN occ) \ M : \E k \in M : k < j /\ j \in span[k]
    IN  UNION { span[k] : k \in K }

\* s without the characters at the positions in gone, the rest in order
RECURSIVE WithoutFrom(_, _, _)
WithoutFrom(s, gone, i) ==
    IF i > Len(s) THEN <<>>
    ELSE (IF i \in gone THEN <<>> ELSE <<s[i]>>) \o WithoutFrom(s, gone, i + 1)

Without(s, gone) == WithoutFrom(s, gone, 1)

\* handler h answered an upstream reply that carried a text
AnsweredText(h) ==
    /\ pc[h] = "responded"
    /\ outcome[h].kind = "reply"
    /\ outcome[h].content.t = "string"
    /\ outcome[h].content.v # <<>>

\* the reply returned is the assistant turn stored in the record and, when the
\* write succeeded, in the file
ReturnedIsStored(h) ==
    LET conv == memory[h].conversation
        file == files[FilePath(UserIdOf(req[h].body))]
    IN  /\ conv[Len(conv)] = [role |-> "assistant", content |-> resp[h].reply]
        /\ saved[h] = "written"
              => /\ file.kind = "json"
                 /\ file.value.conversation[Len(file.value.conversation)]
                       = [role |-> "assistant", content |-> resp[h].reply]

FileOfUser(r) == files[FilePath(UserIdOf(r.body))]

\* C12: a storage failure is never surfaced. A request whose upstream call
\* replied is answered with status 200 and with the reply and the metadata
\* that follow from the record and the upstream text alone, whatever became
\* of the write; and a request whose stored file cannot be read or parsed
\* starts from the default record and goes on to the upstream call.
C12_StorageFailureHidden ==
    [][\A h \in AllHandlers :
          /\ (Took(h) /\ pc[h] = "settled" /\ outcome[h].kind = "reply")
                => LET c    == outcome[h].content
                       up   == IF Truthy(c) THEN c.v ELSE Fallback
                       n    == Len(memory[h].conversation) + 1
                   IN  /\ saved'[h] \in WriteResults
                       /\ resp'[h] =
                            [status |-> 200, error |-> "",
                             reply |-> Without(up, ScanMatches(up)),
                             lastProject |-> memory[h].lastProject,
                             conversationLength |->
                                 IF n > MaxTurns THEN MaxTurns ELSE n,
                             userId |-> UserIdOf(req[h].body)]
          /\ (/\ Took(h) /\ pc[h] \in {"idle", "responded"}
              /\ UsablePrompt(req'[h])
              /\ ~KeyMissing(apiKey)
              /\ FileOfUser(req'[h]).kind = "garbage")
                => /\ pc'[h] = "calling"
                   /\ Len(memory'[h].conversation) = 2
                   /\ memory'[h].conversation[1].role = "system"
                   /\ SubSeq(memory'[h].conversation[1].content, 1, Len(Persona))
                         = Persona
                   /\ memory'[h].conversation[2]
                         = [role |-> "user", content |-> PromptOf(req'[h]).v]
                   /\ memory'[h].lastProject \in {Null, Project}
     ]_vars

\* a request that found an unreadable file and whose own write failed is
\* answered with status 200
C12_Witness ==
    \E h \in AllHandlers :
        /\ pc[h] = "responded"
        /\ resp[h].status = 200
        /\ resp[h].conversationLength = 3
        /\ saved[h] = "failed"
        /\ FileOfUser(req[h]).kind = "garbage"

\* the record of a user id nothing was saved for
FreshRecord(u) ==
    [userId |-> u, lastProject |-> Null, lastTask |-> Null,
     conversation |-> << [role |-> "system", content |-> Persona] >>]

\* this step, handler h calls saveMemory for user id u
SavesFor(h, u) ==
    /\ pc[h] = "settled" /\ pc'[h] = "responded"
    /\ saved'[h] # "none"
    /\ UserIdOf(req[h].body) = u

\* C13: loadMemory for a user id that was never saved returns the one-turn
\* record with the persona and null lastProject and lastTask, and after a
\* successful saveMemory(u, r), loadMemory(u) returns the turns, lastProject
\* and lastTask of r until the next save for u. Stated step by step: at the
\* start every load gives the fresh record; a step that writes r for u makes
\* loadMemory(u) return r; a step that is no save for u leaves loadMemory(u)
\* as it is; a failed save for a user id with no record leaves it without one.
C13_SaveThenLoad ==
    /\ \A u \in UserIds : loadMemory(u, files) = FreshRecord(u)
    /\ [][\A u \in UserIds :
             /\ \A h \in AllHandlers :
                   (SavesFor(h, u) /\ saved'[h] = "written")
                       => LET r == memory'[h]
                              l == loadMemory(u, files')
                          IN  /\ l.conversation = r.conversation
                              /\ l.lastProject = r.lastProject
                              /\ l.lastTask = r.lastTask
             /\ (\A h \in AllHandlers : ~SavesFor(h, u))
                   => loadMemory(u, files') = loadMemory(u, files)
             /\ (/\ \A h \in AllHandlers : SavesFor(h, u) => saved'[h] # "written"
                 /\ loadMemory(u, files) = FreshRecord(u))
                   => loadMemory(u, files') = FreshRecord(u)
       ]_vars

\* C14: surface-as-error only. When the upstream call of a request failed
\* (error status, timeout or network error), the response is a non-200
\* error with no reply, saveMemory is not called, and every file is as it was
\* before the request resumed: the user turn, lastTask and lastProject of the
\* failed request are not stored.
C14_SurfaceAsError ==
    [][\A h \in AllHandlers :
          /\ (Took(h) /\ pc'[h] \in {"calling", "settled"}) => files' = files
          /\ (Took(h) /\ pc[h] = "settled" /\ outcome[h].kind = "error")
              => /\ pc'[h] = "responded"
                 /\ resp'[h].status \in {401, 408, 429, 500}
                 /\ resp'[h].error # ""
                 /\ resp'[h].reply = <<>>
                 /\ saved'[h] = "none"
                 /\ files' = files
                 /\ nCalls'[h] = nCalls[h]
     ]_vars

\* a request with a project failed upstream with a record of its user on
\* file: the file holds neither the prompt nor the project of the request
C14_Witness ==
    \E h \in AllHandlers :
        /\ pc[h] = "responded"
        /\ outcome[h].kind = "error"
        /\ resp[h].status = 408
        /\ saved[h] = "none"
        /\ FileOfUser(req[h]).kind = "json"
        /\ FileOfUser(req[h]).value.lastTask # PromptOf(req[h])
        /\ FileOfUser(req[h]).value.lastProject # Field(ParsedBody(req[h].body), "project")

\* C15: no retries. In one POST request the handler makes at most one
\* upstream call; once the call has failed (or replied) the next step of the
\* request is its response, with no further call; and the request has one
\* response: none while the call is pending, one when the request ends.
C15_NoRetry ==
    [][\A h \in AllHandlers :
          /\ nCalls'[h] <= 1
          /\ (Took(h) /\ pc[h] \in {"idle", "responded"})
                => \/ /\ pc'[h] = "responded"
                      /\ nCalls'[h] = 0
                      /\ resp'[h] # NoResponse
                   \/ /\ pc'[h] = "calling"
                      /\ nCalls'[h] = 1
                      /\ resp'[h] = NoResponse
          /\ (Took(h) /\ pc[h] = "calling")
                => /\ pc'[h] = "settled"
                   /\ nCalls'[h] = nCalls[h]
                   /\ resp'[h] = NoResponse
          /\ (Took(h) /\ pc[h] = "settled")
                => /\ pc'[h] = "responded"
                   /\ nCalls'[h] = nCalls[h]
                   /\ resp'[h] # NoResponse
     ]_vars

\* a request whose one upstream call failed with status 503 has ended with
\* its response
C15_Witness ==
    \E h \in AllHandlers :
        /\ pc[h] = "responded"
        /\ outcome[h].kind = "error"
        /\ outcome[h].status = 503
        /\ nCalls[h] = 1
        /\ resp[h].status = 500

\* C16: in every record the handler persisted, under any interleaving of
\* requests, lastTask is the content of the last user turn of conversation and
\* the last turn is the assistant turn produced for that prompt: the record a
\* request writes ends with its own prompt and the reply it returned.
C16_LastTaskIsLastUserTurn ==
    [][/\ \A p \in Paths :
             files'[p].kind = "json"
                 => LET r == files'[p].value
                        n == Len(r.conversation)
                    IN  /\ n >= 3
                        /\ r.lastTask.t = "string"
                        /\ r.conversation[n].role = "assistant"
                        /\ r.conversation[n - 1]
                              = [role |-> "user", content |-> r.lastTask.v]
                        /\ \A i \in 1..n :
                              r.conversation[i].role = "user" => i <= n - 1
       /\ \A h \in AllHandlers :
             (SavesFor(h, UserIdOf(req[h].body)) /\ saved'[h] = "written")
                 => LET r == files'[FilePath(UserIdOf(req[h].body))].value
                        n == Len(r.conversation)
                    IN  /\ r.lastTask = PromptOf(req[h])
                        /\ r.conversation[n]
                              = [role |-> "assistant", content |-> resp'[h].reply]
     ]_vars

\* two overlapping requests with different prompts for one user have both
\* written; the file holds the record of the later writer
C16_Witness ==
    /\ \A h \in AllHandlers : pc[h] = "responded" /\ saved[h] = "written"
    /\ PromptOf(req[1]) # PromptOf(req[2])
    /\ UserIdOf(req[1].body) = UserIdOf(req[2].body)
    /\ FileOfUser(req[1]).kind = "json"
    /\ Len(memory[1].conversation) = Len(memory[2].conversation)
    /\ FileOfUser(req[1]).value.lastTask = PromptOf(req[2])

=============================================================================
